---- MODULE Spec2Model ----
(***************************************************************************)
(* rvec::rope_vector<T, ChunkSize>: a chunked, growable random-access      *)
(* sequence.  The model follows the evolved header (start_index and        *)
(* front_chunk_index bookkeeping, raw T* chunks).                          *)
(*                                                                         *)
(* A container is a record of its four data members.  A chunk is a record  *)
(* [data, freed]: the ChunkSize slots behind one T* and whether that       *)
(* pointer has been passed to delete[].  erase_front leaves the freed      *)
(* pointer in the vector, so freed chunks stay in `chunks`.                *)
(*                                                                         *)
(* Undefined behaviour is a choice: a read of an uninitialised slot, of a  *)
(* freed chunk or past the end of the chunk vector yields any value g of   *)
(* Garbage (the action draws g); a write to a freed chunk or past the end  *)
(* of the vector does not reach this container's storage.                  *)
(*                                                                         *)
(* `other` is a second container object, for the operations that take two  *)
(* (move construction, move assignment, swap).                             *)
(***************************************************************************)
EXTENDS Integers, Sequences, FiniteSets, TLC

\* ---- the template parameter and the bounds of the model ----
\* ChunkSize is the template parameter (256 unless the caller chooses another);
\* the model instantiates rope_vector<T, 2>.
ChunkSize == 2
\* at most MaxChunks chunk pointers in the vector
MaxChunks == 2
\* front_chunk_index at most MaxFront
MaxFront == 1
\* at most MaxAppend elements in the append-only specifications
MaxAppend == 6

\* size_type arithmetic is modular.  The width is scaled from 64 bits to 16:
\* every quantity of the model stays far below 2^16, so the only wrap-arounds
\* are subtractions below zero, which happen at either width.
SizeMod == 65536

Values == {1, 2}
Default == 0
Uninit == -1
Garbage == Values \cup {Default}
MaxN == ChunkSize * MaxChunks

VARIABLES chunks, total_size, start_index, front_chunk_index, other, ref, last

vars == <<chunks, total_size, start_index, front_chunk_index, other, ref, last>>

\* the container object
Self ==
  [chunks |-> chunks, total_size |-> total_size,
   start_index |-> start_index, front_chunk_index |-> front_chunk_index]

\* ---- private helpers ----
chunk_index(i) == i \div ChunkSize

within_chunk_index(i) == i % ChunkSize

allocate_chunk == [data |-> [k \in 1 .. ChunkSize |-> Uninit], freed |-> FALSE]

free_chunk(ch) == [data |-> [k \in 1 .. ChunkSize |-> Uninit], freed |-> TRUE]

\* the loop condition written i > chunks.size() * ChunkSize: the chunk for the
\* first slot past a full vector is not allocated
chunks_needed_late(c, i) ==
  IF i > Len(c.chunks) * ChunkSize THEN chunk_index(i) + 1 ELSE Len(c.chunks)

\* number of chunks the loop of ensure_capacity_for leaves in the vector
chunks_needed(c, i) ==
  IF i >= Len(c.chunks) * ChunkSize THEN chunk_index(i) + 1 ELSE Len(c.chunks)

\* the new chunks put in front of the vector instead of behind it
ensure_capacity_for_at_front(c, i) ==
  [c EXCEPT !.chunks =
     [k \in 1 .. (chunks_needed(c, i) - Len(c.chunks)) |-> allocate_chunk] \o c.chunks]

ensure_capacity_for(c, i) ==
  [c EXCEPT !.chunks =
     c.chunks \o [k \in 1 .. (chunks_needed(c, i) - Len(c.chunks)) |-> allocate_chunk]]

grow_front(c) ==
  [c EXCEPT !.chunks = <<allocate_chunk>> \o c.chunks,
            !.start_index = (c.start_index + ChunkSize) % SizeMod,
            !.front_chunk_index = (c.front_chunk_index + 1) % SizeMod]

\* ---- operator[] ----
real_index(c, i) == (c.start_index + i) % SizeMod

\* position in the chunk vector (0-based) and slot (0-based) of logical index i
chunk_of(c, i) == (c.front_chunk_index + chunk_index(real_index(c, i))) % SizeMod

slot_of(c, i) == within_chunk_index(real_index(c, i))

\* the chunk exists in the vector and its memory has not been released
Addressable(c, k) == k < Len(c.chunks) /\ ~c.chunks[k + 1].freed

\* the raw content of slot (k, o), Uninit when there is no defined content
Content(c, k, o) ==
  IF Addressable(c, k) THEN c.chunks[k + 1].data[o + 1] ELSE Uninit

\* the value a read of slot (k, o) yields; g is what the build makes of an
\* indeterminate read
ReadSlot(c, k, o, g) ==
  IF Content(c, k, o) = Uninit THEN g ELSE Content(c, k, o)

WriteSlot(c, k, o, v) ==
  IF Addressable(c, k)
    THEN [c EXCEPT !.chunks[k + 1].data[o + 1] = v]
    ELSE c

Get(c, i, g) == ReadSlot(c, chunk_of(c, i), slot_of(c, i), g)

Put(c, i, v) == WriteSlot(c, chunk_of(c, i), slot_of(c, i), v)

\* ---- public operations, as functions of the container ----
capacity(c) ==
  ((Len(c.chunks) - c.front_chunk_index) * ChunkSize - c.start_index) % SizeMod

\* delete[] on every pointer of the vector, then chunks.clear()
clear(c) ==
  [chunks |-> <<>>, total_size |-> 0, start_index |-> 0, front_chunk_index |-> 0]

RECURSIVE FillDefault(_, _, _)
\* the loop of resize: chunks[chunk_index(i)][within_chunk_index(i)] = T{}
FillDefault(c, i, n) ==
  IF i >= n THEN c
  ELSE FillDefault(WriteSlot(c, chunk_index(i), within_chunk_index(i), Default), i + 1, n)

resize(c, n) ==
  IF n < c.total_size
    THEN [c EXCEPT !.total_size = n]
    ELSE [FillDefault(ensure_capacity_for(c, (c.start_index + n - 1) % SizeMod),
                      c.total_size, n)
            EXCEPT !.total_size = n]

\* reserve written with resize: the new slots become elements
reserve_by_resize(c, n) ==
  IF n > capacity(c) THEN resize(c, n) ELSE c

reserve(c, n) ==
  IF n > capacity(c)
    THEN ensure_capacity_for(c, (c.start_index + n - 1) % SizeMod)
    ELSE c

required_chunks(c) ==
  chunk_index(c.start_index + c.total_size)
    + (IF within_chunk_index(c.start_index + c.total_size) # 0 THEN 1 ELSE 0)

\* the loop condition written chunks.size() >= required_chunks: one chunk too
\* many is popped
shrink_to_fit_one_more(c) ==
  IF Len(c.chunks) >= required_chunks(c)
    THEN [c EXCEPT !.chunks = SubSeq(c.chunks, 1, required_chunks(c) - 1)]
    ELSE c

shrink_to_fit(c) ==
  IF Len(c.chunks) > required_chunks(c)
    THEN [c EXCEPT !.chunks = SubSeq(c.chunks, 1, required_chunks(c))]
    ELSE c

\* push_back that asks for the slot after the one it writes: the next chunk is
\* allocated one append early
push_back_ahead(c, v) ==
  LET e == ensure_capacity_for(c, (c.start_index + c.total_size + 1) % SizeMod)
      n == [e EXCEPT !.total_size = (e.total_size + 1) % SizeMod]
  IN  Put(n, c.total_size, v)

push_back(c, v) ==
  LET e == ensure_capacity_for(c, (c.start_index + c.total_size) % SizeMod)
      n == [e EXCEPT !.total_size = (e.total_size + 1) % SizeMod]
  IN  Put(n, c.total_size, v)

emplace_back(c, v) ==
  LET e == ensure_capacity_for(c, (c.start_index + c.total_size) % SizeMod)
      n == [e EXCEPT !.total_size = (e.total_size + 1) % SizeMod]
  IN  Put(n, c.total_size, v)

RECURSIVE ShiftDown(_, _, _, _)
\* for (i = lo; i < hi; ++i) (*this)[i] = std::move((*this)[i + 1]);
ShiftDown(c, i, hi, g) ==
  IF i >= hi THEN c
  ELSE ShiftDown(Put(c, i, Get(c, i + 1, g)), i + 1, hi, g)

RECURSIVE ShiftUp(_, _, _, _)
\* for (i = hi; i > pos; --i) (*this)[i] = std::move((*this)[i - 1]);
ShiftUp(c, i, pos, g) ==
  IF i <= pos THEN c
  ELSE ShiftUp(Put(c, i, Get(c, i - 1, g)), i - 1, pos, g)

\* the two statements shared by the front branches of insert
open_front(c) ==
  LET f == IF c.start_index = 0 THEN grow_front(c) ELSE c
  IN  [f EXCEPT !.start_index = (f.start_index - 1) % SizeMod,
                !.total_size = (f.total_size + 1) % SizeMod]

insert(c, pos, v, g) ==
  LET e == ensure_capacity_for(c, (c.start_index + c.total_size) % SizeMod)
  IN  IF pos = 0
        THEN Put(open_front(e), 0, v)
      ELSE IF pos = e.total_size
        THEN push_back(e, v)
      ELSE IF pos < e.total_size \div 2
        THEN Put(ShiftDown(open_front(e), 0, pos, g), pos, v)
      ELSE [Put(ShiftUp(e, e.total_size, pos, g), pos, v)
              EXCEPT !.total_size = (e.total_size + 1) % SizeMod]

erase(c, pos, g) ==
  [ShiftDown(c, pos, c.total_size - 1, g)
     EXCEPT !.total_size = (c.total_size - 1) % SizeMod]

\* the wrap test written start_index > ChunkSize
erase_front_wraps_late(c) ==
  LET s == [c EXCEPT !.start_index = (c.start_index + 1) % SizeMod,
                     !.total_size = (c.total_size - 1) % SizeMod]
  IN  IF s.start_index > ChunkSize
        THEN [s EXCEPT !.chunks =
                         IF s.front_chunk_index < Len(s.chunks)
                           THEN [s.chunks EXCEPT ![s.front_chunk_index + 1] = free_chunk(@)]
                           ELSE s.chunks,
                       !.front_chunk_index = (s.front_chunk_index + 1) % SizeMod,
                       !.start_index = s.start_index - ChunkSize]
        ELSE s

erase_front(c) ==
  LET s == [c EXCEPT !.start_index = (c.start_index + 1) % SizeMod,
                     !.total_size = (c.total_size - 1) % SizeMod]
  IN  IF s.start_index >= ChunkSize
        THEN [s EXCEPT !.chunks =
                         IF s.front_chunk_index < Len(s.chunks)
                           THEN [s.chunks EXCEPT ![s.front_chunk_index + 1] = free_chunk(@)]
                           ELSE s.chunks,
                       !.front_chunk_index = (s.front_chunk_index + 1) % SizeMod,
                       !.start_index = s.start_index - ChunkSize]
        ELSE s

size(c) == c.total_size

empty(c) == c.total_size = 0

\* sizeof(T), for T = int
ElementSize == 4

memory_used(c) == (Len(c.chunks) * ChunkSize * ElementSize) % SizeMod

\* fragmentation without the chunks.empty() test: a division by zero slots
fragmentation_unguarded(c) ==
  [num |-> Len(c.chunks) * ChunkSize - c.total_size,
   den |-> Len(c.chunks) * ChunkSize]

\* fragmentation() as the exact fraction num / den of the double it returns:
\* 1.0 - used_slots / total_slots, and 0.0 when chunks is empty
fragmentation(c) ==
  IF Len(c.chunks) = 0
    THEN [num |-> 0, den |-> 1]
    ELSE [num |-> Len(c.chunks) * ChunkSize - c.total_size,
          den |-> Len(c.chunks) * ChunkSize]

\* a == b; g and h are what indeterminate reads of a and of b yield
equals(a, b, g, h) ==
  IF a.total_size # b.total_size
    THEN FALSE
    ELSE \A i \in 0 .. a.total_size - 1 : Get(a, i, g) = Get(b, i, h)

\* a != b
not_equals(a, b, g, h) == ~equals(a, b, g, h)

\* ---- the calls an operation makes to operator[] ----
\* one call (*this)[i], made while total_size is n
subscript(i, n) == [i |-> i, total_size |-> n]

\* assert(i < total_size) of operator[] passes in every call of the set
asserts_pass(calls) == \A s \in calls : s.i < s.total_size

\* (*this)[total_size++]: the increment is done when operator[] runs
push_back_subscripts(c) == {subscript(c.total_size, c.total_size + 1)}

emplace_back_subscripts(c) == {subscript(c.total_size, c.total_size + 1)}

insert_subscripts(c, pos) ==
  IF pos = 0
    THEN {subscript(0, c.total_size + 1)}
  ELSE IF pos = c.total_size
    THEN push_back_subscripts(c)
  ELSE IF pos < c.total_size \div 2
    THEN {subscript(i, c.total_size + 1) : i \in 0 .. pos}
  ELSE {subscript(i, c.total_size) : i \in pos .. c.total_size}

erase_subscripts(c, pos) ==
  {subscript(i, c.total_size) : i \in pos .. c.total_size - 1}
    \ (IF pos = c.total_size - 1 THEN {subscript(pos, c.total_size)} ELSE {})

at_subscripts(c, i) == {subscript(i, c.total_size)}

front_subscripts(c) == {subscript(0, c.total_size)}

back_subscripts(c) == {subscript((c.total_size - 1) % SizeMod, c.total_size)}

\* a == b: (*this)[i] and other[i] for every i below total_size
equals_subscripts(a, b) ==
  IF a.total_size # b.total_size
    THEN {}
    ELSE {subscript(i, a.total_size) : i \in 0 .. a.total_size - 1}
           \cup {subscript(i, b.total_size) : i \in 0 .. a.total_size - 1}

\* *it for every it from begin() up to end()
forward_subscripts(c) == {subscript(i, c.total_size) : i \in 0 .. c.total_size - 1}

\* *it for every reverse it from rbegin() up to rend(): (*parent)[index - 1]
backward_subscripts(c) == {subscript(i - 1, c.total_size) : i \in 1 .. c.total_size}

\* ---- calls outside their precondition ----
\* the preconditions are assert()s: compiled in, or compiled out by NDEBUG
Builds == {"assert", "NDEBUG"}

\* how a call ends: it returns (value, container after it), or assert fails
\* and the process aborts, or it runs into undefined behaviour without bound
Returned(c, v) == [result |-> "returns", value |-> v, self |-> c]

Aborted(c) == [result |-> "abort", value |-> Uninit, self |-> c]

Undefined(c) == [result |-> "undefined", value |-> Uninit, self |-> c]

at(c, i, g, build) ==
  IF build = "assert" /\ ~(i < c.total_size)
    THEN Aborted(c)
    ELSE Returned(c, Get(c, i, g))

\* a front() that takes the element out, as the pop of a queue does
front_takes(c, g, build) ==
  IF build = "assert" /\ empty(c)
    THEN Aborted(c)
    ELSE Returned(erase_front(c), Get(c, 0, g))

front(c, g, build) ==
  IF build = "assert" /\ empty(c)
    THEN Aborted(c)
    ELSE Returned(c, Get(c, 0, g))

back(c, g, build) ==
  IF build = "assert" /\ empty(c)
    THEN Aborted(c)
    ELSE Returned(c, Get(c, (c.total_size - 1) % SizeMod, g))

\* erase_front() with its assert(!empty())
erase_front_call(c, build) ==
  IF build = "assert" /\ empty(c)
    THEN Aborted(c)
    ELSE Returned(erase_front(c), Uninit)

\* insert(pos, value) with its assert(pos <= total_size) and the asserts of
\* the operator[] calls it makes
insert_call(c, pos, v, g, build) ==
  IF build = "assert" /\ ~(pos <= c.total_size)
    THEN Aborted(c)
  ELSE IF build = "assert" /\ ~asserts_pass(insert_subscripts(c, pos))
    THEN Aborted(c)
  ELSE Returned(insert(c, pos, v, g), Uninit)

\* erase(pos) with its assert(pos < total_size); on an empty container the
\* loop bound total_size - 1 wraps and the loop runs through memory
erase_call(c, pos, g, build) ==
  IF build = "assert" /\ ~(pos < c.total_size)
    THEN Aborted(c)
  ELSE IF c.total_size = 0
    THEN Undefined(c)
  ELSE Returned(erase(c, pos, g), Uninit)

\* ---- iterators: a cursor is (parent, index); the parent is the container ----
\* iterator(this, i), and const_iterator, reverse_iterator,
\* const_reverse_iterator alike
iterator(i) == [index |-> i]

begin(c) == iterator(0)

end(c) == iterator(c.total_size)

cbegin(c) == iterator(0)

cend(c) == iterator(c.total_size)

rbegin(c) == iterator(c.total_size)

rend(c) == iterator(0)

crbegin(c) == iterator(c.total_size)

crend(c) == iterator(0)

\* operator*: (*parent)[index]
iterator_deref(c, it, g) == Get(c, it.index, g)

\* prefix operator++: ++index
iterator_inc(it) == iterator((it.index + 1) % SizeMod)

\* reverse operator*: (*parent)[index - 1]
reverse_iterator_deref(c, it, g) == Get(c, (it.index - 1) % SizeMod, g)

\* reverse prefix operator++: --index
reverse_iterator_inc(it) == iterator((it.index - 1) % SizeMod)

\* reverse prefix operator--: ++index
reverse_iterator_dec(it) == iterator((it.index + 1) % SizeMod)

\* reverse postfix operator++(int): tmp = *this; --(*this); return tmp
reverse_iterator_post_inc(it) == [result |-> it, it |-> reverse_iterator_dec(it)]

\* reverse postfix operator--(int): tmp = *this; ++(*this); return tmp
reverse_iterator_post_dec(it) == [result |-> it, it |-> reverse_iterator_inc(it)]

\* the same four operators of const_reverse_iterator
const_reverse_iterator_inc(it) == iterator((it.index - 1) % SizeMod)

const_reverse_iterator_dec(it) == iterator((it.index + 1) % SizeMod)

const_reverse_iterator_post_inc(it) ==
  [result |-> it, it |-> const_reverse_iterator_dec(it)]

const_reverse_iterator_post_dec(it) ==
  [result |-> it, it |-> const_reverse_iterator_inc(it)]

RECURSIVE Forward(_, _, _, _)
\* for (it = first; it != stop; ++it) visit(*it): the values visited
Forward(c, it, stop, g) ==
  IF it.index = stop.index THEN <<>>
  ELSE <<iterator_deref(c, it, g)>> \o Forward(c, iterator_inc(it), stop, g)

RECURSIVE Backward(_, _, _, _)
\* the same loop over reverse iterators
Backward(c, it, stop, g) ==
  IF it.index = stop.index THEN <<>>
  ELSE <<reverse_iterator_deref(c, it, g)>> \o Backward(c, reverse_iterator_inc(it), stop, g)

\* ---- the chunks each operation passes to free_chunk, in order ----
\* ~rope_vector(): every pointer of the vector
destructor(c) == c.chunks

\* clear(): every pointer of the vector
clear_frees(c) == c.chunks

\* shrink_to_fit(): chunks.back(), while more than required_chunks remain
shrink_to_fit_frees(c) ==
  IF Len(c.chunks) > required_chunks(c)
    THEN [k \in 1 .. (Len(c.chunks) - required_chunks(c)) |-> c.chunks[Len(c.chunks) + 1 - k]]
    ELSE <<>>

\* delete[] on a pointer that was already passed to delete[]
ReleasedAgain(fs) == \E k \in 1 .. Len(fs) : fs[k].freed

\* ---- operations on two containers ----
\* what std::move leaves of the source: an empty vector, members reset
moved_from(src) ==
  [src EXCEPT !.chunks = <<>>,
              !.total_size = 0,
              !.start_index = 0,
              !.front_chunk_index = 0]

\* rope_vector(rope_vector&& other): the new object and what is left of other
move_construct(src) ==
  [dst |-> [chunks |-> src.chunks,
            total_size |-> src.total_size,
            start_index |-> src.start_index,
            front_chunk_index |-> src.front_chunk_index],
   src |-> moved_from(src)]

\* move assignment that forgets to reset other.start_index
move_assign_keeps_offset(dst, src) ==
  [dst |-> [chunks |-> src.chunks,
            total_size |-> src.total_size,
            start_index |-> src.start_index,
            front_chunk_index |-> src.front_chunk_index],
   src |-> [src EXCEPT !.chunks = <<>>, !.total_size = 0, !.front_chunk_index = 0],
   dropped |-> dst.chunks]

\* operator=(rope_vector&& other), this != &other.  chunks = std::move(..)
\* replaces the vector of pointers: the T* it held (dropped) are overwritten
\* without delete[]
move_assign(dst, src) ==
  [dst |-> [chunks |-> src.chunks,
            total_size |-> src.total_size,
            start_index |-> src.start_index,
            front_chunk_index |-> src.front_chunk_index],
   src |-> moved_from(src),
   dropped |-> dst.chunks]

\* swap that leaves front_chunk_index where it was
swap_without_front(a, b) ==
  [a |-> [chunks |-> b.chunks, total_size |-> b.total_size,
          start_index |-> b.start_index, front_chunk_index |-> a.front_chunk_index],
   b |-> [chunks |-> a.chunks, total_size |-> a.total_size,
          start_index |-> a.start_index, front_chunk_index |-> b.front_chunk_index]]

\* a.swap(b): the four members exchanged
swap(a, b) ==
  [a |-> [chunks |-> b.chunks, total_size |-> b.total_size,
          start_index |-> b.start_index, front_chunk_index |-> b.front_chunk_index],
   b |-> [chunks |-> a.chunks, total_size |-> a.total_size,
          start_index |-> a.start_index, front_chunk_index |-> a.front_chunk_index]]

\* ---- the reference flat sequence (std::vector semantics) ----
RefInsert(s, pos, v) == SubSeq(s, 1, pos) \o <<v>> \o SubSeq(s, pos + 1, Len(s))

RefErase(s, pos) == SubSeq(s, 1, pos) \o SubSeq(s, pos + 2, Len(s))

RefResize(s, n) ==
  IF n <= Len(s) THEN SubSeq(s, 1, n)
  ELSE s \o [k \in 1 .. (n - Len(s)) |-> Default]

\* ---- observation: the logical sequence as operator[] resolves it ----
View(c) == [i \in 1 .. c.total_size |-> Content(c, chunk_of(c, i - 1), slot_of(c, i - 1))]

\* ---- the state machine ----
\* a default-constructed container
Fresh ==
  [chunks |-> <<>>, total_size |-> 0, start_index |-> 0, front_chunk_index |-> 0]

Init ==
  /\ chunks = <<>>
  /\ total_size = 0
  /\ start_index = 0
  /\ front_chunk_index = 0
  /\ other = Fresh
  /\ ref = <<>>
  /\ last = "new"

\* the bounds of the model on the result of a call
Within(c) ==
  /\ Len(c.chunks) <= MaxChunks
  /\ c.front_chunk_index <= MaxFront

\* the container after a call
Becomes(c, op) ==
  /\ chunks' = c.chunks
  /\ total_size' = c.total_size
  /\ start_index' = c.start_index
  /\ front_chunk_index' = c.front_chunk_index
  /\ other' = other
  /\ last' = op

\* the index a call hands to ensure_capacity_for is one the model can allocate
\* for
Allocatable(i) == chunk_index(i) + 1 <= MaxChunks + 1

\* ---- the calls: what a call does to the container ----
CallPushBack(v) == Becomes(push_back(Self, v), "push_back")

CallEmplaceBack(v) == Becomes(emplace_back(Self, v), "emplace_back")

CallInsert(pos, v, g) ==
  /\ pos <= total_size
  /\ Within(insert(Self, pos, v, g))
  /\ Becomes(insert(Self, pos, v, g), "insert")

CallErase(pos, g) ==
  /\ pos < total_size
  /\ Within(erase(Self, pos, g))
  /\ Becomes(erase(Self, pos, g), "erase")

CallEraseFront ==
  /\ total_size > 0
  /\ Within(erase_front(Self))
  /\ Becomes(erase_front(Self), "erase_front")

CallResize(n) ==
  /\ n < total_size \/ Allocatable((start_index + n - 1) % SizeMod)
  /\ Within(resize(Self, n))
  /\ Becomes(resize(Self, n), "resize")

CallReserve(n) ==
  /\ n <= capacity(Self) \/ Allocatable((start_index + n - 1) % SizeMod)
  /\ Within(reserve(Self, n))
  /\ Becomes(reserve(Self, n), "reserve")

CallShrinkToFit == Becomes(shrink_to_fit(Self), "shrink_to_fit")

CallClear == Becomes(clear(Self), "clear")

\* ---- Spec: every mutating operation, each within its precondition ----
PushBack ==
  \E v \in Values :
    /\ Within(push_back(Self, v))
    /\ CallPushBack(v)
    /\ UNCHANGED ref

EmplaceBack ==
  \E v \in Values :
    /\ Within(emplace_back(Self, v))
    /\ CallEmplaceBack(v)
    /\ UNCHANGED ref

Insert ==
  \E pos \in 0 .. MaxN, v \in Values, g \in Garbage :
    CallInsert(pos, v, g) /\ UNCHANGED ref

Erase ==
  \E pos \in 0 .. MaxN, g \in Garbage :
    CallErase(pos, g) /\ UNCHANGED ref

EraseFront == CallEraseFront /\ UNCHANGED ref

Resize == \E n \in 0 .. MaxN : CallResize(n) /\ UNCHANGED ref

Reserve == \E n \in 0 .. MaxN : CallReserve(n) /\ UNCHANGED ref

ShrinkToFit == CallShrinkToFit /\ UNCHANGED ref

Clear == CallClear /\ UNCHANGED ref

Next ==
  \/ PushBack
  \/ EmplaceBack
  \/ Insert
  \/ Erase
  \/ EraseFront
  \/ Resize
  \/ Reserve
  \/ ShrinkToFit
  \/ Clear

Spec == Init /\ [][Next]_vars

\* ---- SpecRef: the same calls, applied to the flat reference sequence too ----
RefPushBack ==
  \E v \in Values :
    /\ Within(push_back(Self, v))
    /\ CallPushBack(v)
    /\ ref' = Append(ref, v)

RefEmplaceBack ==
  \E v \in Values :
    /\ Within(emplace_back(Self, v))
    /\ CallEmplaceBack(v)
    /\ ref' = Append(ref, v)

RefInsertAt ==
  \E pos \in 0 .. MaxN, v \in Values, g \in Garbage :
    CallInsert(pos, v, g) /\ ref' = RefInsert(ref, pos, v)

RefEraseAt ==
  \E pos \in 0 .. MaxN, g \in Garbage :
    CallErase(pos, g) /\ ref' = RefErase(ref, pos)

RefEraseFront == CallEraseFront /\ ref' = Tail(ref)

RefResizeTo == \E n \in 0 .. MaxN : CallResize(n) /\ ref' = RefResize(ref, n)

RefReserve == \E n \in 0 .. MaxN : CallReserve(n) /\ ref' = ref

RefShrinkToFit == CallShrinkToFit /\ ref' = ref

RefClear == CallClear /\ ref' = <<>>

NextRef ==
  \/ RefPushBack
  \/ RefEmplaceBack
  \/ RefInsertAt
  \/ RefEraseAt
  \/ RefEraseFront
  \/ RefResizeTo
  \/ RefReserve
  \/ RefShrinkToFit
  \/ RefClear

SpecRef == Init /\ [][NextRef]_vars

\* ---- SpecPush: only appends, onto a freshly constructed container ----
AppendPushBack ==
  \E v \in Values :
    /\ total_size < MaxAppend
    /\ CallPushBack(v)
    /\ ref' = Append(ref, v)

AppendEmplaceBack ==
  \E v \in Values :
    /\ total_size < MaxAppend
    /\ CallEmplaceBack(v)
    /\ ref' = Append(ref, v)

NextPush ==
  \/ AppendPushBack
  \/ AppendEmplaceBack

SpecPush == Init /\ [][NextPush]_vars

\* ---- SpecPushShrink: appends and shrink_to_fit ----
AppendShrinkToFit == CallShrinkToFit /\ ref' = ref

NextPushShrink ==
  \/ AppendPushBack
  \/ AppendEmplaceBack
  \/ AppendShrinkToFit

SpecPushShrink == Init /\ [][NextPushShrink]_vars

\* ---- SpecTwo: two containers a (the container) and b (other) ----
\* a call on b leaves a alone
OtherBecomes(c, op) ==
  /\ other' = c
  /\ last' = op
  /\ UNCHANGED <<chunks, total_size, start_index, front_chunk_index, ref>>

OtherPushBack ==
  \E v \in Values :
    /\ Within(push_back(other, v))
    /\ OtherBecomes(push_back(other, v), "other.push_back")

OtherEraseFront ==
  /\ other.total_size > 0
  /\ Within(erase_front(other))
  /\ OtherBecomes(erase_front(other), "other.erase_front")

\* the two objects after a call that involves both
BothBecome(a, b, op) ==
  /\ chunks' = a.chunks
  /\ total_size' = a.total_size
  /\ start_index' = a.start_index
  /\ front_chunk_index' = a.front_chunk_index
  /\ other' = b
  /\ last' = op
  /\ UNCHANGED ref

\* a = std::move(b);
MoveAssign ==
  BothBecome(move_assign(Self, other).dst, move_assign(Self, other).src, "move_assign")

\* b = std::move(a);
MoveAssignFrom ==
  BothBecome(move_assign(other, Self).src, move_assign(other, Self).dst, "move_assign_from")

\* b goes out of scope and a new b is constructed: rope_vector b(std::move(a));
MoveConstructFrom ==
  BothBecome(move_construct(Self).src, move_construct(Self).dst, "move_construct_from")

\* swap(a, b);
Swap == BothBecome(swap(Self, other).a, swap(Self, other).b, "swap")

NextTwo ==
  \/ PushBack
  \/ EraseFront
  \/ OtherPushBack
  \/ OtherEraseFront
  \/ MoveAssign
  \/ MoveAssignFrom
  \/ MoveConstructFrom
  \/ Swap

SpecTwo == Init /\ [][NextTwo]_vars

\* ---- SpecRead: writers bring the container to a state, readers read it ----
\* the const member functions; each leaves the object it is called on as the
\* code leaves it
ReadSize == size(Self) \in Nat /\ Becomes(Self, "size") /\ UNCHANGED ref

ReadEmpty == empty(Self) \in BOOLEAN /\ Becomes(Self, "empty") /\ UNCHANGED ref

ReadCapacity == capacity(Self) \in Nat /\ Becomes(Self, "capacity") /\ UNCHANGED ref

ReadMemoryUsed ==
  memory_used(Self) \in Nat /\ Becomes(Self, "memory_used") /\ UNCHANGED ref

ReadFragmentation ==
  fragmentation(Self).den > 0 /\ Becomes(Self, "fragmentation") /\ UNCHANGED ref

\* a == a, through the const operator[]
ReadEquals ==
  \E g \in Garbage :
    /\ equals(Self, Self, g, g) \in BOOLEAN
    /\ Becomes(Self, "operator==")
    /\ UNCHANGED ref

ReadAt ==
  \E i \in 0 .. MaxN, g \in Garbage, build \in Builds :
    /\ i < total_size
    /\ Becomes(at(Self, i, g, build).self, "at")
    /\ UNCHANGED ref

ReadFront ==
  \E g \in Garbage, build \in Builds :
    /\ ~empty(Self)
    /\ Becomes(front(Self, g, build).self, "front")
    /\ UNCHANGED ref

ReadBack ==
  \E g \in Garbage, build \in Builds :
    /\ ~empty(Self)
    /\ Becomes(back(Self, g, build).self, "back")
    /\ UNCHANGED ref

\* for (it = cbegin(); it != cend(); ++it) *it
ReadIterate ==
  \E g \in Garbage :
    /\ Len(Forward(Self, cbegin(Self), cend(Self), g)) = total_size
    /\ Becomes(Self, "iterate")
    /\ UNCHANGED ref

ReadOnly ==
  {"size", "empty", "capacity", "memory_used", "fragmentation", "operator==",
   "at", "front", "back", "iterate"}

NextRead ==
  \/ PushBack
  \/ Insert
  \/ EraseFront
  \/ ReadSize
  \/ ReadEmpty
  \/ ReadCapacity
  \/ ReadMemoryUsed
  \/ ReadFragmentation
  \/ ReadEquals
  \/ ReadAt
  \/ ReadFront
  \/ ReadBack
  \/ ReadIterate

SpecRead == Init /\ [][NextRead]_vars

\* ---- SpecFifo: the container used as a queue ----
NextFifo ==
  \/ RefPushBack
  \/ RefEraseFront

SpecFifo == Init /\ [][NextFifo]_vars

\* ---- what a caller observes ----
\* the element operator[] resolves logical index i to (Uninit: no defined value)
At(c, i) == Content(c, chunk_of(c, i), slot_of(c, i))

\* ceil((start offset + size) / ChunkSize)
ChunksForExtent(c) == (c.start_index + c.total_size + ChunkSize - 1) \div ChunkSize

\* |chunks| - front chunk index: the chunks counted as reserved
ReservedChunks(c) == Len(c.chunks) - c.front_chunk_index

\* ---- the claims ----

\* C1: after any sequence of mutating operations within their preconditions,
\* size() and the value at every logical index equal those of the flat
\* reference sequence the same operations were applied to.
C1_MatchesFlatSequence ==
  /\ size(Self) = Len(ref)
  /\ View(Self) = ref

\* C2: after any sequence of push_back / emplace_back calls on a fresh
\* container, size() is the number of calls and the element at index i is the
\* i-th appended value.
C2_AppendedInOrder ==
  /\ size(Self) = Len(ref)
  /\ \A i \in 0 .. Len(ref) - 1 : At(Self, i) = ref[i + 1]

C2_Witness ==
  /\ last = "emplace_back"
  /\ size(Self) > 2 * ChunkSize
  /\ Len(chunks) = 3
  /\ At(Self, 0) # At(Self, 2 * ChunkSize)

\* C3: every logical index i < size() resolves to the physical position
\* front_chunk_index * ChunkSize + start_index + i, and the chunk at that
\* position exists in the chunk vector and has not been freed.
C3_LiveIndexAddressable ==
  \A i \in 0 .. size(Self) - 1 :
    LET p == front_chunk_index * ChunkSize + start_index + i
    IN  /\ chunk_of(Self, i) = p \div ChunkSize
        /\ slot_of(Self, i) = p % ChunkSize
        /\ Addressable(Self, p \div ChunkSize)

\* C4: for any valid pos, insert(pos, v) followed by erase(pos) restores the
\* prior logical sequence: the same size and the same value at every index.
C4_InsertEraseRoundTrip ==
  \A pos \in 0 .. size(Self), v \in Values, g \in Garbage, h \in Garbage :
    LET r == erase(insert(Self, pos, v, g), pos, h)
    IN  /\ size(r) = size(Self)
        /\ View(r) = View(Self)

\* C5: capacity() >= size() in every reachable state.
C5_CapacityAtLeastSize == capacity(Self) >= size(Self)

\* C6: after reserve(n) in any reachable state, capacity() >= n.
C6_ReserveReachesN ==
  \A n \in 0 .. MaxN : capacity(reserve(Self, n)) >= n

\* C7: reserve(n) leaves size(), the value at every logical index, the start
\* offset and the front chunk index unchanged and never decreases capacity();
\* when n <= capacity() it changes nothing at all.
C7_ReserveFrame ==
  \A n \in 0 .. MaxN + 1 :
    LET r == reserve(Self, n)
    IN  /\ size(r) = size(Self)
        /\ r.start_index = start_index
        /\ r.front_chunk_index = front_chunk_index
        /\ \A i \in 0 .. size(Self) - 1 : At(r, i) = At(Self, i)
        /\ SubSeq(r.chunks, 1, Len(chunks)) = chunks
        /\ capacity(r) >= capacity(Self)
        /\ n <= capacity(Self) => r = Self

C7_Witness ==
  /\ last = "reserve"
  /\ size(Self) > 0
  /\ start_index > 0
  /\ \A i \in 0 .. size(Self) - 1 : At(Self, i) \in Values
  /\ capacity(Self) >= size(Self) + ChunkSize

\* C8: shrink_to_fit() never changes size() and never releases a chunk that
\* holds a live element: every logical index that resolved to an allocated
\* chunk still does afterwards, with the same value.
C8_ShrinkKeepsLive ==
  LET r == shrink_to_fit(Self)
  IN  /\ size(r) = size(Self)
      /\ \A i \in 0 .. size(Self) - 1 :
           Addressable(Self, chunk_of(Self, i)) =>
             /\ Addressable(r, chunk_of(r, i))
             /\ At(r, i) = At(Self, i)

\* C9: after shrink_to_fit() the number of chunks from the front chunk index
\* onward is exactly ceil((start offset + size()) / ChunkSize).
C9_ShrinkExact ==
  LET r == shrink_to_fit(Self)
  IN  Len(r.chunks) - r.front_chunk_index = ChunksForExtent(r)

\* C10: pushing k * ChunkSize elements (k >= 1) onto a fresh container and
\* then calling shrink_to_fit() gives capacity() = k * ChunkSize.
C10_ShrinkAfterFullChunks ==
  (last = "shrink_to_fit" /\ size(Self) > 0 /\ size(Self) % ChunkSize = 0)
    => capacity(Self) = size(Self)

C10_Witness ==
  /\ last = "shrink_to_fit"
  /\ size(Self) = 3 * ChunkSize
  /\ capacity(Self) = 3 * ChunkSize

\* the container holds a sequence: every live index resolves to an allocated
\* chunk and to a slot that has been written
Holds(c) == \A i \in 0 .. size(c) - 1 : At(c, i) # Uninit

\* C11: insert(0, v) on a container holding sequence s yields v followed by
\* all of s in its original order, and size() grows by one.
C11_InsertFrontPrepends ==
  Holds(Self) =>
    \A v \in Values, g \in Garbage :
      LET r == insert(Self, 0, v, g)
      IN  /\ size(r) = size(Self) + 1
          /\ View(r) = <<v>> \o View(Self)

\* C12: for 0 < pos <= size(), insert(pos, v) grows size() by one, places v at
\* index pos, keeps the elements below pos and moves each element at j >= pos
\* to j + 1, whichever branch (left shift, right shift, append) is taken.
C12_InsertAtPosition ==
  Holds(Self) =>
    \A pos \in 1 .. size(Self), v \in Values, g \in Garbage :
      LET r == insert(Self, pos, v, g)
      IN  /\ size(r) = size(Self) + 1
          /\ View(r) = RefInsert(View(Self), pos, v)

\* C13: for pos < size(), erase(pos) shrinks size() by one, keeps the elements
\* below pos, moves each element at j > pos to j - 1, and neither allocates nor
\* releases a chunk.
C13_EraseShiftsTail ==
  \A pos \in 0 .. size(Self) - 1, g \in Garbage :
    LET r == erase(Self, pos, g)
    IN  /\ size(r) = size(Self) - 1
        /\ \A j \in 0 .. pos - 1 : At(r, j) = At(Self, j)
        /\ \A j \in pos + 1 .. size(Self) - 1 : At(r, j - 1) = At(Self, j)
        /\ Len(r.chunks) = Len(chunks)
        /\ \A k \in 1 .. Len(chunks) : r.chunks[k].freed = chunks[k].freed

\* C14: erase_front() on a non-empty container removes exactly the first
\* element: size() shrinks by one, the element formerly at j + 1 is at j, in
\* the same slot of the same chunk; when the start offset crosses a chunk
\* boundary the vacated front chunk is released (once) and the count of
\* reserved chunks decreases by one, otherwise no chunk changes.
C14_EraseFrontRemovesFirst ==
  size(Self) > 0 =>
    LET r == erase_front(Self)
        crosses == start_index + 1 >= ChunkSize
    IN  /\ size(r) = size(Self) - 1
        /\ \A j \in 0 .. size(Self) - 2 :
             /\ At(r, j) = At(Self, j + 1)
             /\ chunk_of(r, j) = chunk_of(Self, j + 1)
             /\ slot_of(r, j) = slot_of(Self, j + 1)
        /\ crosses =>
             /\ Addressable(Self, front_chunk_index)
             /\ r.chunks[front_chunk_index + 1].freed
             /\ ReservedChunks(r) = ReservedChunks(Self) - 1
        /\ ~crosses => r.chunks = chunks

\* C15: resize(n) sets size() to n, keeps the value at every index below
\* min(n, old size), makes every index in [old size, n) hold T{}, and
\* releases no chunk when shrinking.
C15_ResizeKeepsAndFills ==
  Holds(Self) =>
    \A n \in 0 .. MaxN :
      (n < size(Self) \/ Allocatable((start_index + n - 1) % SizeMod)) =>
        LET r == resize(Self, n)
        IN  /\ size(r) = n
            /\ \A i \in 0 .. size(Self) - 1 : i < n => At(r, i) = At(Self, i)
            /\ \A i \in size(Self) .. n - 1 : At(r, i) = Default
            /\ n <= size(Self) => r.chunks = chunks

\* C16: no chunk is released more than once: in no reachable state does the
\* chunk vector hold a pointer that was already released, which clear(),
\* shrink_to_fit() or the destructor would pass to delete[] again.
C16_NoDoubleRelease ==
  /\ ~ReleasedAgain(destructor(Self))
  /\ ~ReleasedAgain(clear_frees(Self))
  /\ ~ReleasedAgain(shrink_to_fit_frees(Self))

\* C17: no chunk is leaked: a move assignment drops no pointer to a chunk that
\* has not been released.
C17_NoLeak ==
  /\ ~ \E k \in 1 .. Len(move_assign(Self, other).dropped) :
         ~move_assign(Self, other).dropped[k].freed
  /\ ~ \E k \in 1 .. Len(move_assign(other, Self).dropped) :
         ~move_assign(other, Self).dropped[k].freed

\* C18: clear() in any reachable state releases every chunk (once) and leaves
\* size() = 0, empty(), capacity() = 0, memory_used() = 0, start offset and
\* front chunk index 0: a container that takes push_back like a new one.
C18_ClearReleasesAll ==
  LET r == clear(Self)
  IN  /\ ~ReleasedAgain(clear_frees(Self))
      /\ size(r) = 0
      /\ empty(r)
      /\ capacity(r) = 0
      /\ memory_used(r) = 0
      /\ r.chunks = <<>>
      /\ r.start_index = 0
      /\ r.front_chunk_index = 0
      /\ \A v \in Values : push_back(r, v) = push_back(Fresh, v)

\* m is the outcome of a move from a source that was s: the destination has
\* s's bookkeeping and chunks, the source is empty, owns no chunk and takes a
\* push_back like a new container
Transferred(m, s) ==
  /\ m.dst = s
  /\ size(m.dst) = size(s)
  /\ \A i \in 0 .. size(s) - 1 : At(m.dst, i) = At(s, i)
  /\ size(m.src) = 0
  /\ capacity(m.src) = 0
  /\ m.src.chunks = <<>>
  /\ \A v \in Values :
       /\ size(push_back(m.src, v)) = 1
       /\ At(push_back(m.src, v), 0) = v
       /\ push_back(m.src, v) = push_back(Fresh, v)

\* C19: move construction and move assignment give the destination the
\* source's size and the source's value at every index; the source is left
\* with size() = 0 and capacity() = 0, shares no chunk with the destination,
\* and a push_back on it works.
C19_MoveTransfers ==
  /\ Transferred(move_assign(Self, other), other)
  /\ Transferred(move_assign(other, Self), Self)
  /\ Transferred(move_construct(Self), Self)
  /\ Transferred(move_construct(other), other)

C19_Witness ==
  /\ last = "move_assign"
  /\ size(Self) >= 2
  /\ start_index > 0
  /\ Holds(Self)
  /\ At(Self, 0) # At(Self, 1)
  /\ other = Fresh

\* C20: swap(a, b) exchanges chunks and bookkeeping: a holds b's prior
\* sequence and b holds a's, no element is written, and swap(a, b) followed
\* by swap(b, a) restores both containers.
C20_SwapExchanges ==
  LET s == swap(Self, other)
      t == swap(s.b, s.a)
  IN  /\ s.a = other
      /\ s.b = Self
      /\ size(s.a) = size(other) /\ View(s.a) = View(other)
      /\ size(s.b) = size(Self) /\ View(s.b) = View(Self)
      /\ t.b = Self
      /\ t.a = other

C20_Witness ==
  /\ last = "swap"
  /\ size(Self) > 0
  /\ size(other) > size(Self)
  /\ Holds(Self)
  /\ Holds(other)
  /\ front_chunk_index # other.front_chunk_index
  /\ start_index # other.start_index

\* C21: a == b is true iff a.size() == b.size() and the two containers hold
\* the same value at every logical index, whatever their start offsets, front
\* chunk indices and chunk counts; a != b is the negation of a == b.
C21_EqualityIsValueWise ==
  \A g \in Garbage, h \in Garbage :
    /\ equals(Self, other, g, h) <=>
         (size(Self) = size(other) /\ View(Self) = View(other))
    /\ not_equals(Self, other, g, h) <=> ~equals(Self, other, g, h)

\* C22: memory_used() = (|chunks| - front chunk index) * ChunkSize * element
\* size in every reachable state.
C22_MemoryUsedCountsReserved ==
  memory_used(Self) = ReservedChunks(Self) * ChunkSize * ElementSize

\* C23: fragmentation() lies in [0, 1] in every reachable state, and is 0.0
\* whenever no chunk exists: after construction, after clear() and for a
\* moved-from container.
C23_FragmentationInUnitInterval ==
  /\ fragmentation(Self).den > 0
  /\ 0 <= fragmentation(Self).num
  /\ fragmentation(Self).num <= fragmentation(Self).den
  /\ Len(chunks) > 0 => size(Self) <= Len(chunks) * ChunkSize
  /\ Len(chunks) = 0 => fragmentation(Self).num = 0
  /\ fragmentation(Fresh).num = 0
  /\ fragmentation(clear(Self)).num = 0
  /\ fragmentation(moved_from(Self)).num = 0

C23_Witness ==
  /\ front_chunk_index > 0
  /\ Holds(Self)
  /\ Len(chunks) = 2
  /\ size(Self) = 1
  /\ fragmentation(Self).num = 2 * ChunkSize - 1
  /\ fragmentation(Self).den = 2 * ChunkSize

\* a sequence in reverse order
Reversed(s) == [k \in 1 .. Len(s) |-> s[Len(s) + 1 - k]]

\* C24: iteration with prefix ++ from begin() to end() visits exactly size()
\* elements, the k-th being the element at logical index k; from rbegin() to
\* rend() it visits them in the reverse order; the const variants do the same.
C24_IterationInLogicalOrder ==
  \A g \in Garbage :
    /\ Forward(Self, begin(Self), end(Self), g) = View(Self)
    /\ Forward(Self, cbegin(Self), cend(Self), g) = View(Self)
    /\ Backward(Self, rbegin(Self), rend(Self), g) = Reversed(View(Self))
    /\ Backward(Self, crbegin(Self), crend(Self), g) = Reversed(View(Self))

\* the container after the step
SelfNext ==
  [chunks |-> chunks', total_size |-> total_size',
   start_index |-> start_index', front_chunk_index |-> front_chunk_index']

C26_AtReportsOutOfRange ==
  \A i \in 0 .. MaxN, g \in Garbage, build \in Builds :
    LET r == at(Self, i, g, build)
    IN  /\ r.self = Self
        /\ i >= size(Self) => r.result = "OutOfRange"
        /\ i < size(Self) => (r.result = "returns" /\ r.value = At(Self, i))

\* C27: front(), back() and erase_front() on a container with size() = 0 fail
\* with an EmptyContainer error and leave chunks, size, start offset and front
\* chunk index unchanged.
C27_EmptyReportsEmptyContainer ==
  empty(Self) =>
    \A g \in Garbage, build \in Builds :
      /\ front(Self, g, build).result = "EmptyContainer"
      /\ front(Self, g, build).self = Self
      /\ back(Self, g, build).result = "EmptyContainer"
      /\ back(Self, g, build).self = Self
      /\ erase_front_call(Self, build).result = "EmptyContainer"
      /\ erase_front_call(Self, build).self = Self

\* C28: insert(pos, v) with pos > size() and erase(pos) with pos >= size()
\* fail with an OutOfRange error and leave the container unchanged.
C28_BadPositionReportsOutOfRange ==
  \A v \in Values, g \in Garbage, build \in Builds :
    /\ \A pos \in size(Self) + 1 .. MaxN + 1 :
         /\ insert_call(Self, pos, v, g, build).result = "OutOfRange"
         /\ insert_call(Self, pos, v, g, build).self = Self
    /\ \A pos \in size(Self) .. MaxN :
         /\ erase_call(Self, pos, g, build).result = "OutOfRange"
         /\ erase_call(Self, pos, g, build).self = Self

\* C29: 0 <= start offset < ChunkSize after construction and after every
\* public operation.
C29_StartOffsetInChunk ==
  /\ 0 <= start_index
  /\ start_index < ChunkSize

C29_Witness ==
  /\ last = "erase_front"
  /\ start_index = 0
  /\ front_chunk_index = 1
  /\ size(Self) > 0
  /\ Holds(Self)

\* C30: grow_front() (called with start offset 0) prepends one chunk and moves
\* no element, and every live logical index resolves to the same value after
\* the call as before it.
C30_GrowFrontFrame ==
  (Holds(Self) /\ start_index = 0) =>
    LET r == grow_front(Self)
    IN  /\ Len(r.chunks) = Len(chunks) + 1
        /\ SubSeq(r.chunks, 2, Len(r.chunks)) = chunks
        /\ size(r) = size(Self)
        /\ \A i \in 0 .. size(Self) - 1 : At(r, i) = At(Self, i)

\* C31: chunks are allocated lazily, one at a time: a freshly constructed
\* container owns no chunk (capacity() = 0, memory_used() = 0), after n appends
\* onto it the vector holds exactly ceil(n / ChunkSize) chunks, and an append
\* allocates a chunk (one) only when the slot it writes lies beyond the chunks
\* already there.
C31_LazyAllocation ==
  /\ capacity(Fresh) = 0 /\ memory_used(Fresh) = 0 /\ Len(Fresh.chunks) = 0
  /\ last = "new" => Self = Fresh
  /\ Len(chunks) = (Len(ref) + ChunkSize - 1) \div ChunkSize
  /\ \A v \in Values :
       Len(push_back(Self, v).chunks) - Len(chunks)
         = IF total_size = Len(chunks) * ChunkSize THEN 1 ELSE 0

\* the third append has allocated the second chunk
C31_Witness ==
  /\ last = "push_back"
  /\ Len(ref) = ChunkSize + 1
  /\ Len(chunks) = 2

C33_FifoAcrossChunks ==
  /\ size(Self) = Len(ref)
  /\ \A i \in 0 .. Len(ref) - 1 : At(Self, i) = ref[i + 1]
  /\ ~empty(Self) => \A g \in Garbage, build \in Builds :
                       front(Self, g, build) = Returned(Self, Head(ref))
  /\ \A v \in Values :
       Addressable(push_back(Self, v), chunk_of(push_back(Self, v), total_size))

RECURSIVE Pushed(_, _)
\* the container after n more push_back calls
Pushed(c, n) == IF n = 0 THEN c ELSE push_back(Pushed(c, n - 1), 1)

\* C34: capacity() is how many elements can be stored without growing: from
\* any reachable state exactly capacity() - size() consecutive push_back calls
\* allocate no chunk, the push_back after those allocates exactly one, and no
\* single push_back allocates more than one.
C34_CapacityIsRoomWithoutGrowing ==
  /\ capacity(Self) >= size(Self)
  /\ Len(Pushed(Self, capacity(Self) - size(Self)).chunks) = Len(chunks)
  /\ Len(Pushed(Self, capacity(Self) - size(Self) + 1).chunks) = Len(chunks) + 1
  /\ Len(push_back(Self, 1).chunks) <= Len(chunks) + 1

\* C35: resize(n) and reserve(n) terminate after allocating finitely many
\* chunks for every n >= 0 in every reachable state: the position they hand
\* to ensure_capacity_for is start_index + n - 1 without wrap-around, they
\* allocate no more chunks than positions 0 .. start_index + n - 1 take, and
\* resize(0) on an empty container returns with size() = 0.
C35_ResizeReserveTerminate ==
  \A n \in 0 .. MaxN :
    /\ n >= total_size => (start_index + n - 1) % SizeMod = start_index + n - 1
    /\ n > capacity(Self) => (start_index + n - 1) % SizeMod = start_index + n - 1
    /\ Len(resize(Self, n).chunks) - Len(chunks) <= chunk_index(start_index + n) + 1
    /\ Len(reserve(Self, n).chunks) - Len(chunks) <= chunk_index(start_index + n) + 1
    /\ (n = 0 /\ empty(Self)) => resize(Self, n).total_size = 0

\* C36: assert(i < total_size) of operator[] is never violated by the
\* container's own operations: for any reachable state and any public
\* operation called within its precondition, every call the operation makes
\* to operator[] passes an index below size() at the moment of the call.
C36_SubscriptAssertHolds ==
  /\ asserts_pass(push_back_subscripts(Self))
  /\ asserts_pass(emplace_back_subscripts(Self))
  /\ \A pos \in 0 .. MaxN : pos <= total_size => asserts_pass(insert_subscripts(Self, pos))
  /\ \A pos \in 0 .. MaxN : pos < total_size => asserts_pass(erase_subscripts(Self, pos))
  /\ \A i \in 0 .. MaxN : i < total_size => asserts_pass(at_subscripts(Self, i))
  /\ ~empty(Self) => asserts_pass(front_subscripts(Self))
  /\ ~empty(Self) => asserts_pass(back_subscripts(Self))
  /\ asserts_pass(equals_subscripts(Self, Self))
  /\ asserts_pass(forward_subscripts(Self))
  /\ asserts_pass(backward_subscripts(Self))

\* C37: in every reachable state front_chunk_index <= chunks.size() and
\* start_index <= (chunks.size() - front_chunk_index) * ChunkSize, so the
\* unsigned subtractions of capacity() do not wrap around.
C37_CapacityDoesNotWrap ==
  /\ front_chunk_index <= Len(chunks)
  /\ start_index <= (Len(chunks) - front_chunk_index) * ChunkSize
  /\ capacity(Self) = (Len(chunks) - front_chunk_index) * ChunkSize - start_index

\* C38: for reverse_iterator and const_reverse_iterator, r++ leaves the cursor
\* where ++r leaves it (one step further toward rend()) and returns the old
\* position, and r-- leaves it where --r leaves it.
C38_ReversePostfixAgreesWithPrefix ==
  \A i \in 0 .. total_size :
    /\ i # 0 =>
         /\ reverse_iterator_post_inc(iterator(i)).it = reverse_iterator_inc(iterator(i))
         /\ reverse_iterator_post_inc(iterator(i)).result = iterator(i)
         /\ const_reverse_iterator_post_inc(iterator(i)).it
              = const_reverse_iterator_inc(iterator(i))
         /\ const_reverse_iterator_post_inc(iterator(i)).result = iterator(i)
    /\ i # total_size =>
         /\ reverse_iterator_post_dec(iterator(i)).it = reverse_iterator_dec(iterator(i))
         /\ reverse_iterator_post_dec(iterator(i)).result = iterator(i)
         /\ const_reverse_iterator_post_dec(iterator(i)).it
              = const_reverse_iterator_dec(iterator(i))
         /\ const_reverse_iterator_post_dec(iterator(i)).result = iterator(i)

====
